---- MODULE Spec2Model ----
(***************************************************************************)
(* A model of the orchestration layer of the asset manager backend:        *)
(*   - the three fan-out/fan-in pipelines (orchestrator/pipelines):        *)
(*     ScoutPipeline.discover, AnalysisPipeline.analyze and                *)
(*     RiskPipeline.analyze, each built on                                 *)
(*     asyncio.gather with return_exceptions=True;                         *)
(*   - the conversation routes (api/routes/chat.py): chat and              *)
(*     execute_action, each a request that loads a Conversation in its own *)
(*     session, awaits an agent or a pipeline, and commits.                *)
(* A coroutine is cut into actions at its awaits on the reasoning service. *)
(***************************************************************************)
EXTENDS Integers, Sequences, FiniteSets, TLC

VARIABLES
    pc,             \* position of the pipeline coroutine
    args,           \* the arguments of the running pipeline call
    tasks,          \* scout_tasks / research_tasks / tasks: the gathered coroutines
    results,        \* the slots asyncio.gather collects, one per task
    calls,          \* how often each agent's run() has been awaited
    all_stocks,     \* ScoutPipeline.discover: all_stocks
    unique_stocks,  \* ScoutPipeline.discover: unique_stocks
    context,        \* the context handed to screener.run / thesis_writer.run
    output,         \* the value the pipeline returns
    convs,          \* table conversations (committed rows)
    funds,          \* table funds (committed rows)
    positions,      \* table positions (committed rows)
    reqs,           \* the chat / execute_action requests in flight
    served,         \* how many requests the routes have accepted
    response        \* what the request that finished last was answered

pipeVars == <<pc, args, tasks, results, calls, all_stocks, unique_stocks, context, output>>
chatVars == <<convs, funds, positions, reqs, served, response>>
vars == <<pc, args, tasks, results, calls, all_stocks, unique_stocks, context, output,
          convs, funds, positions, reqs, served, response>>

----------------------------------------------------------------------------
(* Bounds of the model *)

\* longest themes list passed to discover
MaxThemes == 1
\* longest stocks list one scout returns
MaxStocks == 2
\* most stocks all scouts of one run return together
MaxFound == 2

Themes == {"AI", "Fintech"}
Mandates == {"", "US Growth"}
\* mandates for the runs that look at the task list only
TaskMandates == Mandates \cup {"DISRUPTION", "Income"}
Tickers == {"NVDA", "AMD"}
\* stock.get("ticker", "") of a stock without ticker
NoTicker == ""
\* str(exception) of a failed agent call
ErrMsgs == {"timeout", "quota"}
\* discover only prints the message of a failed scout or screener call
ScoutErrMsgs == {"timeout"}

SeqsUpTo(S, n) == UNION {[1..k -> S] : k \in 0..n}

RECURSIVE SumLen(_, _)
SumLen(f, k) == IF k = 0 THEN 0 ELSE f[k] + SumLen(f, k - 1)

----------------------------------------------------------------------------
(* asyncio.gather with return_exceptions=True *)

Running == [st |-> "running"]
Returned(v) == [st |-> "returned", val |-> v]
Raised(m) == [st |-> "raised", msg |-> m]

\* a loop awaiting the coroutines one after another would start only the first
LaunchFirstOnly(ts) == <<Running>>

\* gather wraps every coroutine in a task at once; all of them are scheduled
\* before the caller is suspended
Launch(ts) == [i \in 1..Len(ts) |-> Running]

\* a gather that would hand the results over in completion order
StoreByCompletion(res, i, outcome) ==
    LET free == {k \in 1..Len(res) : res[k].st = "running"}
        first == CHOOSE k \in free : \A l \in free : k <= l
    IN  [res EXCEPT ![first] = outcome]

\* gather keeps one slot per child, in the order of its arguments
StoreResult(res, i, outcome) == [res EXCEPT ![i] = outcome]

AllFinished(res) == \A i \in 1..Len(res) : res[i].st # "running"

\* a gather without return_exceptions: the first exception is raised to the caller
GatherPropagates(res) == \E i \in 1..Len(res) : res[i].st = "raised"

\* with return_exceptions=True an exception is a value in its slot and the
\* gather itself never raises
GatherRaises(res) == FALSE

isException(r) == r.st = "raised"

\* calls' after awaiting run() of every agent of ts once
CountCalls(ts) ==
    [a \in DOMAIN calls |->
        calls[a] + Cardinality({i \in 1..Len(ts) : ts[i].agent = a})]

Agents == {"emerging_scout", "smart_money_scout", "disruption_scout", "thematic_scout",
           "screener",
           "fundamentals_agent", "moat_agent", "sentiment_agent", "valuation_agent",
           "thesis_writer",
           "stress_test_agent", "var_agent", "monte_carlo_agent", "correlation_agent"}

\* Python's None
None == [is_none |-> TRUE]

\* args while no pipeline call is running
NoCall == [pipeline |-> "none"]

----------------------------------------------------------------------------
(* ScoutPipeline *)

\* (mandate or "").lower()
Lower(m) == CASE m = "US Growth" -> "us growth"
              [] m = "DISRUPTION" -> "disruption"
              [] OTHER -> m

\* "growth" in s or "disruption" in s, for the lower-cased mandates of the model
MentionsGrowth(s) == s \in {"us growth", "disruption"}

ScoutTask(name, theme, agent) == [name |-> name, theme |-> theme, agent |-> agent]

RECURSIVE ThematicTasks(_)
ThematicTasks(themes) ==
    IF themes = <<>> THEN <<>>
    ELSE <<ScoutTask("Thematic", Head(themes), "thematic_scout")>>
            \o ThematicTasks(Tail(themes))

\* a task list that would look for the words in the mandate as it is written
BuildScoutTasksCaseSensitive(themes, mandate, run_all_scouts) ==
    <<ScoutTask("Emerging Leaders", "", "emerging_scout"),
      ScoutTask("Smart Money", "", "smart_money_scout")>>
    \o (IF run_all_scouts \/ MentionsGrowth(mandate)
        THEN <<ScoutTask("Disruption", "", "disruption_scout")>>
        ELSE <<>>)
    \o ThematicTasks(themes)

\* discover, step 1: the scouts to run
BuildScoutTasks(themes, mandate, run_all_scouts) ==
    <<ScoutTask("Emerging Leaders", "", "emerging_scout"),
      ScoutTask("Smart Money", "", "smart_money_scout")>>
    \o (IF run_all_scouts \/ MentionsGrowth(Lower(mandate))
        THEN <<ScoutTask("Disruption", "", "disruption_scout")>>
        ELSE <<>>)
    \o ThematicTasks(themes)

\* what scout i answers when it lists the tickers tks: every stock carries the
\* fields the scout wrote for it, here the place <<i, j>> it was written at
ScoutAnswer(i, tks) ==
    [stocks |-> [j \in 1..Len(tks) |-> [ticker |-> tks[j], pick |-> <<i, j>>]]]

\* _run_scout: result["_scout_name"] = name
RunScout(task, answer) ==
    [stocks |-> answer.stocks, _scout_name |-> [name |-> task.name, theme |-> task.theme]]

\* stock["_source"] = scout_name (a stock has no _multi_scout key yet: FALSE)
Annotate(stock, scout_name) ==
    [ticker |-> stock.ticker, pick |-> stock.pick,
     _source |-> scout_name, _multi_scout |-> FALSE]

AnnotateAll(stocks, scout_name) ==
    [j \in 1..Len(stocks) |-> Annotate(stocks[j], scout_name)]

\* discover, step 3: the stocks of the scouts that did not fail, in results order
RECURSIVE Aggregate(_, _)
Aggregate(res, i) ==
    IF i > Len(res) THEN <<>>
    ELSE IF isException(res[i]) THEN Aggregate(res, i + 1)
    ELSE AnnotateAll(res[i].val.stocks, res[i].val._scout_name) \o Aggregate(res, i + 1)

\* for s in unique_stocks: if s.get("ticker") == ticker: s["_multi_scout"] = True; break
RECURSIVE MarkMulti(_, _, _)
MarkMulti(unique, ticker, k) ==
    IF k > Len(unique) THEN unique
    ELSE IF unique[k].ticker = ticker
         THEN [unique EXCEPT ![k]._multi_scout = TRUE]
         ELSE MarkMulti(unique, ticker, k + 1)

\* a loop that would never consult seen_tickers
DedupStepAppendAlways(acc, stock) ==
    IF stock.ticker # NoTicker
    THEN [acc EXCEPT !.unique_stocks = Append(acc.unique_stocks, stock)]
    ELSE acc

\* one turn of the loop of step 4 over a stock of all_stocks
DedupStep(acc, stock) ==
    LET ticker == stock.ticker IN
    IF ticker # NoTicker /\ ticker \notin acc.seen_tickers
    THEN [seen_tickers |-> acc.seen_tickers \cup {ticker},
          unique_stocks |-> Append(acc.unique_stocks, stock)]
    ELSE IF ticker \in acc.seen_tickers
    THEN [acc EXCEPT !.unique_stocks = MarkMulti(acc.unique_stocks, ticker, 1)]
    ELSE acc

RECURSIVE DedupFrom(_, _, _)
DedupFrom(all, k, acc) ==
    IF k > Len(all) THEN acc
    ELSE DedupFrom(all, k + 1, DedupStep(acc, all[k]))

\* discover, step 4: deduplicate by ticker
Deduplicate(all) ==
    DedupFrom(all, 1, [seen_tickers |-> {}, unique_stocks |-> <<>>]).unique_stocks

\* scout_summaries: name and count of every scout that did not fail
RECURSIVE Summaries(_, _)
Summaries(res, i) ==
    IF i > Len(res) THEN <<>>
    ELSE IF isException(res[i]) THEN Summaries(res, i + 1)
    ELSE <<[name |-> res[i].val._scout_name, count |-> Len(res[i].val.stocks)]>>
            \o Summaries(res, i + 1)

\* the stocks the scouts of this run have returned so far
Found(res) ==
    SumLen([i \in 1..Len(res) |->
                IF res[i].st = "returned" THEN Len(res[i].val.stocks) ELSE 0], Len(res))

\* discover up to its await of the gather: steps 1 and 2
discover(themes, mandate, run_all_scouts) ==
    /\ pc = "idle"
    /\ pc' = "gather"
    /\ args' = [pipeline |-> "scout", themes |-> themes, mandate |-> mandate,
                run_all_scouts |-> run_all_scouts]
    /\ tasks' = BuildScoutTasks(themes, mandate, run_all_scouts)
    /\ results' = Launch(tasks')
    /\ calls' = CountCalls(tasks')
    /\ UNCHANGED <<all_stocks, unique_stocks, context, output, chatVars>>

\* _run_scout: scout.run returns; the scout lists the tickers tks
ScoutReturns(i, tks) ==
    /\ pc = "gather" /\ args.pipeline = "scout"
    /\ i \in 1..Len(tasks) /\ results[i] = Running
    /\ Found(results) + Len(tks) <= MaxFound
    /\ results' = StoreResult(results, i, Returned(RunScout(tasks[i], ScoutAnswer(i, tks))))
    /\ UNCHANGED <<pc, args, tasks, calls, all_stocks, unique_stocks, context, output, chatVars>>

\* _run_scout: scout.run raises; the exception is printed and raised again
ScoutRaises(i, m) ==
    /\ pc = "gather" /\ args.pipeline = "scout"
    /\ i \in 1..Len(tasks) /\ results[i] = Running
    /\ results' = StoreResult(results, i, Raised(m))
    /\ UNCHANGED <<pc, args, tasks, calls, all_stocks, unique_stocks, context, output, chatVars>>

\* discover from the return of the gather to its await of the screener: steps 3 to 5
discoverAggregate ==
    /\ pc = "gather" /\ args.pipeline = "scout"
    /\ AllFinished(results)
    /\ IF GatherRaises(results)
       THEN /\ pc' = "raised"
            /\ output' = [raised_by |-> "gather"]
            /\ UNCHANGED <<calls, all_stocks, unique_stocks, context>>
       ELSE /\ pc' = "post"
            /\ all_stocks' = Aggregate(results, 1)
            /\ unique_stocks' = Deduplicate(all_stocks')
            /\ context' = [scout_results |-> unique_stocks',
                           fund_mandate |-> args.mandate, themes |-> args.themes]
            /\ calls' = [calls EXCEPT !["screener"] = @ + 1]
            /\ UNCHANGED output
    /\ UNCHANGED <<args, tasks, results, chatVars>>

\* the screener's answers of the model: every stock hot, or none
ScreenerAnswers(stocks) ==
    {[screened_stocks |-> [hot |-> stocks], hot_count |-> Len(stocks)],
     [screened_stocks |-> [hot |-> <<>>], hot_count |-> 0]}

\* discover, step 6, after screener.run returned
discoverReturn(screened) ==
    /\ pc = "post" /\ args.pipeline = "scout"
    /\ pc' = "done"
    /\ output' = [universe |-> screened.screened_stocks,
                  stats |-> [scouts_run |-> Len(tasks),
                             total_discovered |-> Len(all_stocks),
                             unique_stocks |-> Len(unique_stocks),
                             hot_count |-> screened.hot_count],
                  scout_summaries |-> Summaries(results, 1)]
    /\ UNCHANGED <<args, tasks, results, calls, all_stocks, unique_stocks, context, chatVars>>

\* screener.run raises: nothing in discover catches it
discoverScreenerRaises(m) ==
    /\ pc = "post" /\ args.pipeline = "scout"
    /\ pc' = "raised"
    /\ output' = [raised_by |-> "screener", msg |-> m]
    /\ UNCHANGED <<args, tasks, results, calls, all_stocks, unique_stocks, context, chatVars>>

----------------------------------------------------------------------------
(* AnalysisPipeline *)

\* the empty dict
EmptyMap == <<>>

\* d.get(key, default)
Get(d, key, default) == IF key \in DOMAIN d THEN d[key] ELSE default

ErrorMap(m) == [_error |-> m]

Scores == {3, 8}

ResearchTask(name, agent) == [name |-> name, agent |-> agent]

\* analyze: the four research coroutines, in this order
BuildResearchTasks ==
    <<ResearchTask("Fundamentals", "fundamentals_agent"),
      ResearchTask("Moat", "moat_agent"),
      ResearchTask("Sentiment", "sentiment_agent"),
      ResearchTask("Valuation", "valuation_agent")>>

\* what the research agent of a task answers: its own analysis of the ticker
ResearchAnswer(task, ticker, score) ==
    [analysis |-> task.name, ticker |-> ticker, score |-> score, _sources |-> <<task.name>>]

\* a context that would carry the failure like the research mapping does
ContextEntryWithError(r) == IF isException(r) THEN [_error |-> r.msg] ELSE r.val

\* the value analyze puts in the thesis writer's context for a branch
ContextEntry(r) == IF isException(r) THEN EmptyMap ELSE r.val

\* the value analyze puts in the returned research mapping for a branch
ResearchEntry(r) == IF isException(r) THEN ErrorMap(r.msg) ELSE r.val

\* _collect_sources
RECURSIVE CollectSources(_, _)
CollectSources(res, i) ==
    IF i > Len(res) THEN <<>>
    ELSE IF isException(res[i]) THEN CollectSources(res, i + 1)
    ELSE Get(res[i].val, "_sources", <<>>) \o CollectSources(res, i + 1)

\* the thesis writer's answers of the model: what _parse_json made of the
\* text of the language model, returned by run as it is. Two answers follow
\* the format the prompt asks for, one uses the prompt's own rating label and a
\* conviction on another scale, one is the result of a text without JSON.
\* conviction_pct is the conviction in hundredths.
ThesisAnswers ==
    {[recommendation |-> "buy", conviction_pct |-> 70],
     [recommendation |-> "hold", conviction_pct |-> 50],
     [recommendation |-> "STRONG BUY", conviction_pct |-> 850],
     [_raw |-> <<"p">>, _parse_error |-> TRUE,
      _error_message |-> "Failed to parse JSON from response"]}

\* analyze up to its await of the gather: step 1
analyze(ticker) ==
    /\ pc = "idle"
    /\ pc' = "gather"
    /\ args' = [pipeline |-> "analysis", ticker |-> ticker]
    /\ tasks' = BuildResearchTasks
    /\ results' = Launch(tasks')
    /\ calls' = CountCalls(tasks')
    /\ UNCHANGED <<all_stocks, unique_stocks, context, output, chatVars>>

\* _run_agent: agent.run returns
ResearchReturns(i, score) ==
    /\ pc = "gather" /\ args.pipeline = "analysis"
    /\ i \in 1..Len(tasks) /\ results[i] = Running
    /\ results' = StoreResult(results, i, Returned(ResearchAnswer(tasks[i], args.ticker, score)))
    /\ UNCHANGED <<pc, args, tasks, calls, all_stocks, unique_stocks, context, output, chatVars>>

\* _run_agent: agent.run raises; the exception is printed and raised again
ResearchRaises(i, m) ==
    /\ pc = "gather" /\ args.pipeline = "analysis"
    /\ i \in 1..Len(tasks) /\ results[i] = Running
    /\ results' = StoreResult(results, i, Raised(m))
    /\ UNCHANGED <<pc, args, tasks, calls, all_stocks, unique_stocks, context, output, chatVars>>

\* analyze from the return of the gather to its await of the thesis writer: step 2
analyzeSynthesize ==
    /\ pc = "gather" /\ args.pipeline = "analysis"
    /\ AllFinished(results)
    /\ IF GatherRaises(results)
       THEN /\ pc' = "raised"
            /\ output' = [raised_by |-> "gather"]
            /\ UNCHANGED <<calls, context>>
       ELSE /\ pc' = "post"
            /\ context' = [ticker |-> args.ticker,
                           fundamentals |-> ContextEntry(results[1]),
                           moat |-> ContextEntry(results[2]),
                           sentiment |-> ContextEntry(results[3]),
                           valuation |-> ContextEntry(results[4])]
            /\ calls' = [calls EXCEPT !["thesis_writer"] = @ + 1]
            /\ UNCHANGED output
    /\ UNCHANGED <<args, tasks, results, all_stocks, unique_stocks, chatVars>>

\* analyze, step 3, after thesis_writer.run returned
analyzeReturn(thesis) ==
    /\ pc = "post" /\ args.pipeline = "analysis"
    /\ pc' = "done"
    /\ output' = [ticker |-> args.ticker,
                  thesis |-> thesis,
                  research |-> [fundamentals |-> ResearchEntry(results[1]),
                                moat |-> ResearchEntry(results[2]),
                                sentiment |-> ResearchEntry(results[3]),
                                valuation |-> ResearchEntry(results[4])],
                  sources |-> CollectSources(results, 1)]
    /\ UNCHANGED <<args, tasks, results, calls, all_stocks, unique_stocks, context, chatVars>>

\* thesis_writer.run raises: nothing in analyze catches it
analyzeThesisRaises(m) ==
    /\ pc = "post" /\ args.pipeline = "analysis"
    /\ pc' = "raised"
    /\ output' = [raised_by |-> "thesis_writer", msg |-> m]
    /\ UNCHANGED <<args, tasks, results, calls, all_stocks, unique_stocks, context, chatVars>>

----------------------------------------------------------------------------
(* RiskPipeline *)

RiskTask(name, agent) == [name |-> name, agent |-> agent]

\* a task list that would ignore run_full
BuildRiskTasksAlwaysFull(run_full) ==
    <<[name |-> "Stress Test", agent |-> "stress_test_agent"],
      [name |-> "VaR", agent |-> "var_agent"],
      [name |-> "Monte Carlo", agent |-> "monte_carlo_agent"],
      [name |-> "Correlation", agent |-> "correlation_agent"]>>

\* analyze, step 1: four agents if run_full, else stress test and VaR
BuildRiskTasks(run_full) ==
    IF run_full
    THEN <<RiskTask("Stress Test", "stress_test_agent"),
           RiskTask("VaR", "var_agent"),
           RiskTask("Monte Carlo", "monte_carlo_agent"),
           RiskTask("Correlation", "correlation_agent")>>
    ELSE <<RiskTask("Stress Test", "stress_test_agent"),
           RiskTask("VaR", "var_agent")>>

RiskAgents == {"stress_test_agent", "var_agent", "monte_carlo_agent", "correlation_agent"}

\* the answers of the risk agents of the model, each marked with the agent it is from
RiskAnswers(agent) ==
    CASE agent = "stress_test_agent" ->
            {[by |-> agent, worst_case_scenario |-> [portfolio_decline |-> "-30%"],
              risk_flags |-> <<"Rate sensitivity">>, recommendations |-> <<"Hedge rates">>],
             [by |-> agent, worst_case_scenario |-> [portfolio_decline |-> "-55%"],
              risk_flags |-> <<"Tech concentration", "High beta", "Illiquid names">>,
              recommendations |-> <<"Trim tech">>],
             [by |-> agent, worst_case_scenario |-> [portfolio_decline |-> "severe"]]}
      [] agent = "var_agent" ->
            {[by |-> agent, var_metrics |-> [daily_var_95 |-> [percent |-> "2%"]]],
             [by |-> agent, var_metrics |-> [daily_var_95 |-> [percent |-> "4%"]],
              recommendations |-> <<"Trim tech">>]}
      [] agent = "monte_carlo_agent" ->
            {[by |-> agent, outcome_probabilities |-> [prob_loss_gt_10pct |-> "15%"]]}
      [] agent = "correlation_agent" ->
            {[by |-> agent, diversification_assessment |-> [score |-> "4/10"],
              recommendations |-> <<"Add uncorrelated assets">>],
             [by |-> agent, diversification_assessment |-> [score |-> "8/10"]],
             [by |-> agent]}

\* the characters of the percent strings of the model
Chars(s) ==
    CASE s = "-30%" -> <<"-", "3", "0", "%">>
      [] s = "-55%" -> <<"-", "5", "5", "%">>
      [] s = "-50%" -> <<"-", "5", "0", "%">>
      [] s = "-25%" -> <<"-", "2", "5", "%">>
      [] s = "-25.1%" -> <<"-", "2", "5", ".", "1", "%">>
      [] s = "-35%" -> <<"-", "3", "5", "%">>
      [] s = "-35.1%" -> <<"-", "3", "5", ".", "1", "%">>
      [] s = "-50.1%" -> <<"-", "5", "0", ".", "1", "%">>
      [] s = "40" -> <<"4", "0">>
      [] s = "100%" -> <<"1", "0", "0", "%">>
      [] s = "severe" -> <<"s", "e", "v", "e", "r", "e">>
      [] s = "-%" -> <<"-", "%">>
      [] s = "" -> <<>>
      [] s = "0%" -> <<"0", "%">>
      [] s = "2%" -> <<"2", "%">>
      [] s = "4%" -> <<"4", "%">>

\* s.replace(c, "")
Replace(chars, c) == SelectSeq(chars, LAMBDA x : x # c)

\* s.replace("%", "").replace("-", "")
StripPercentSign(s) == Replace(Replace(Chars(s), "%"), "-")

Digits == {"0", "1", "2", "3", "4", "5", "6", "7", "8", "9"}

DigitValue(c) ==
    CASE c = "0" -> 0 [] c = "1" -> 1 [] c = "2" -> 2 [] c = "3" -> 3 [] c = "4" -> 4
      [] c = "5" -> 5 [] c = "6" -> 6 [] c = "7" -> 7 [] c = "8" -> 8 [] c = "9" -> 9

RECURSIVE DigitsValue(_)
DigitsValue(ds) ==
    IF ds = <<>> THEN 0
    ELSE 10 * DigitsValue(SubSeq(ds, 1, Len(ds) - 1)) + DigitValue(ds[Len(ds)])

\* float(chars), in tenths, of an optional sign, digits and at most one decimal
\* (the strings of the model carry no more); ValueError for anything else
Float(chars) ==
    LET signed == chars # <<>> /\ chars[1] \in {"-", "+"}
        body == IF signed THEN Tail(chars) ELSE chars
        dots == {k \in 1..Len(body) : body[k] = "."}
        dot == IF dots = {} THEN Len(body) + 1 ELSE CHOOSE k \in dots : \A j \in dots : k <= j
        whole == SubSeq(body, 1, dot - 1)
        frac == SubSeq(body, dot + 1, Len(body))
        AllDigits(ds) == \A k \in 1..Len(ds) : ds[k] \in Digits
        magnitude == 10 * DigitsValue(whole) + DigitsValue(frac)
    IN  IF AllDigits(whole) /\ AllDigits(frac) /\ Len(whole) + Len(frac) > 0 /\ Len(frac) <= 1
        THEN [st |-> "ok", tenths |-> IF signed /\ chars[1] = "-" THEN 0 - magnitude ELSE magnitude]
        ELSE [st |-> "ValueError"]

Abs(n) == IF n < 0 THEN 0 - n ELSE n

\* a parse failure that would count as the deepest decline
AssessOverallRiskFailsHigh(stress) ==
    LET worst == Get(Get(stress, "worst_case_scenario", EmptyMap), "portfolio_decline", "-50%")
        parsed == Float(StripPercentSign(worst))
        worst_pct == IF parsed.st = "ok" THEN Abs(parsed.tenths) ELSE 1000
    IN  IF worst_pct > 500 THEN "HIGH"
        ELSE IF worst_pct > 350 THEN "MODERATE-HIGH"
        ELSE IF worst_pct > 250 THEN "MODERATE"
        ELSE "LOW-MODERATE"

\* thresholds that would include their own value
AssessOverallRiskInclusive(stress) ==
    LET worst == Get(Get(stress, "worst_case_scenario", EmptyMap), "portfolio_decline", "-50%")
        parsed == Float(StripPercentSign(worst))
        worst_pct == IF parsed.st = "ok" THEN Abs(parsed.tenths) ELSE 500
    IN  IF worst_pct >= 500 THEN "HIGH"
        ELSE IF worst_pct >= 350 THEN "MODERATE-HIGH"
        ELSE IF worst_pct >= 250 THEN "MODERATE"
        ELSE "LOW-MODERATE"

\* _assess_overall_risk; worst_pct is kept in tenths of a percent
AssessOverallRisk(stress) ==
    LET worst == Get(Get(stress, "worst_case_scenario", EmptyMap), "portfolio_decline", "-50%")
        parsed == Float(StripPercentSign(worst))
        worst_pct == IF parsed.st = "ok" THEN Abs(parsed.tenths) ELSE 500
    IN  IF worst_pct > 500 THEN "HIGH"
        ELSE IF worst_pct > 350 THEN "MODERATE-HIGH"
        ELSE IF worst_pct > 250 THEN "MODERATE"
        ELSE "LOW-MODERATE"

\* seq[:n]
Take(seq, n) == SubSeq(seq, 1, IF Len(seq) < n THEN Len(seq) ELSE n)

\* s.startswith(("3", "4", "5")) on the scores of the model
StartsWith345(s) == s \in {"4/10", "5/10"}

\* _identify_flags
IdentifyFlags(stress, var, corr) ==
    LET fromStress == Take(Get(stress, "risk_flags", <<>>), 2)
        score == Get(Get(corr, "diversification_assessment", EmptyMap), "score", "5/10")
        fromCorr == IF corr # EmptyMap /\ StartsWith345(score)
                    THEN <<"Diversification quality needs improvement">> ELSE <<>>
        var_pct == Get(Get(Get(var, "var_metrics", EmptyMap), "daily_var_95", EmptyMap),
                       "percent", "0%")
        parsed == Float(Replace(Chars(var_pct), "%"))
        fromVar == IF parsed.st = "ok" /\ parsed.tenths > 30
                   THEN <<"High daily VaR of " \o var_pct>> ELSE <<>>
    IN  Take(fromStress \o fromCorr \o fromVar, 5)

Range(seq) == {seq[k] : k \in 1..Len(seq)}

\* _compile_recommendations: list(set(recs)) of at most 2 + 1 + 2 entries, as a set
CompileRecommendations(stress, var, corr) ==
    Range(Take(Get(stress, "recommendations", <<>>), 2))
    \cup Range(Take(Get(var, "recommendations", <<>>), 1))
    \cup Range(Take(Get(corr, "recommendations", <<>>), 2))

\* the slot of a branch: its result, or {"_error": str(exception)}
Slot(r) == IF isException(r) THEN ErrorMap(r.msg) ELSE r.val

\* analyze up to its await of the gather: step 1
risk_analyze(run_full) ==
    /\ pc = "idle"
    /\ pc' = "gather"
    /\ args' = [pipeline |-> "risk", run_full |-> run_full]
    /\ tasks' = BuildRiskTasks(run_full)
    /\ results' = Launch(tasks')
    /\ calls' = CountCalls(tasks')
    /\ UNCHANGED <<all_stocks, unique_stocks, context, output, chatVars>>

\* _run_agent: agent.run returns
RiskAgentReturns(i, answer) ==
    /\ pc = "gather" /\ args.pipeline = "risk"
    /\ i \in 1..Len(tasks) /\ results[i] = Running
    /\ answer \in RiskAnswers(tasks[i].agent)
    /\ results' = StoreResult(results, i, Returned(answer))
    /\ UNCHANGED <<pc, args, tasks, calls, all_stocks, unique_stocks, context, output, chatVars>>

\* _run_agent: agent.run raises; the exception is printed and raised again
RiskAgentRaises(i, m) ==
    /\ pc = "gather" /\ args.pipeline = "risk"
    /\ i \in 1..Len(tasks) /\ results[i] = Running
    /\ results' = StoreResult(results, i, Raised(m))
    /\ UNCHANGED <<pc, args, tasks, calls, all_stocks, unique_stocks, context, output, chatVars>>

\* analyze from the return of the gather to its return: step 2
risk_compile ==
    /\ pc = "gather" /\ args.pipeline = "risk"
    /\ AllFinished(results)
    /\ IF GatherRaises(results)
       THEN /\ pc' = "raised"
            /\ output' = [raised_by |-> "gather"]
       ELSE LET stress_test == Slot(results[1])
                var == Slot(results[2])
                monte_carlo == IF args.run_full /\ Len(results) > 2
                               THEN Slot(results[3]) ELSE EmptyMap
                correlation == IF args.run_full /\ Len(results) > 2
                               THEN Slot(results[4]) ELSE EmptyMap
            IN  /\ pc' = "done"
                /\ output' =
                    [stress_tests |-> stress_test,
                     var |-> var,
                     monte_carlo |-> IF args.run_full THEN monte_carlo ELSE None,
                     correlations |-> IF args.run_full THEN correlation ELSE None,
                     summary |-> [overall_risk_level |-> AssessOverallRisk(stress_test)],
                     risk_flags |-> IdentifyFlags(stress_test, var, correlation),
                     recommendations |->
                        CompileRecommendations(stress_test, var, correlation)]
    /\ UNCHANGED <<args, tasks, results, calls, all_stocks, unique_stocks, context, chatVars>>

----------------------------------------------------------------------------
(* The conversation routes: api/routes/chat.py over the tables of models/ *)

\* rows of table conversations
MaxConvs == 1
\* rows of table funds
MaxFunds == 2
\* rows of table positions
MaxPositions == 2
\* requests served at the same time
MaxReqs == 2
\* longest message history of a conversation
MaxMsgs == 4
\* requests the routes accept in one behaviour
MaxServed == 4

ConvIds == 1..MaxConvs
FundIds == 1..MaxFunds
ReqIds == 1..MaxReqs

\* a fund_id that is None
NoFundId == 0
\* no row with this id
NoRow == [absent |-> TRUE]
\* no request in this slot
NoReq == [kind |-> "none"]

UserTexts == {"build me a fund", "how risky is it"}

\* the answers of the intent agent of the model
IntentAnswers ==
    {[intent |-> "create_fund", fund_params |-> [themes |-> <<"fintech", "ai">>]],
     [intent |-> "CREATE_FUND",
      fund_params |-> [name |-> "Alpha Fund", themes |-> <<"ai">>, mandate |-> "US Growth"]],
     [intent |-> "query_performance"],
     [intent |-> "query_risk"],
     [intent |-> "command_trade", trade_params |-> [ticker |-> "NVDA", action |-> "buy"]],
     [intent |-> "unclear", clarification_needed |-> "Which themes?"],
     [intent |-> "modify_fund", suggested_response |-> "Noted."]}

\* str.lower() on the intent tags of the model
LowerIntent(tag) == IF tag = "CREATE_FUND" THEN "create_fund" ELSE tag

\* fund_params.get("name", <title-cased first two themes> + " Fund" or "New Growth Fund")
FundName(fund_params) ==
    LET themes == Get(fund_params, "themes", <<>>)
        derived == CASE themes = <<>> -> "New Growth Fund"
                     [] themes = <<"fintech", "ai">> -> "FintechAi Fund"
                     [] themes = <<"ai">> -> "Ai Fund"
    IN  Get(fund_params, "name", derived)

\* re.sub(r'[^a-z0-9]+', '-', fund_name.lower()).strip('-')
Slugify(fund_name) ==
    CASE fund_name = "FintechAi Fund" -> "fintechai-fund"
      [] fund_name = "Alpha Fund" -> "alpha-fund"
      [] fund_name = "Ai Fund" -> "ai-fund"
      [] fund_name = "New Growth Fund" -> "new-growth-fund"

\* Conversation.add_message: a new list, the old one with the message appended
add_message(messages, role, content) ==
    Append(messages, [role |-> role, content |-> content])

\* d[key] = value on a dict
Put(d, key, value) ==
    [k \in DOMAIN d \cup {key} |-> IF k = key THEN value ELSE d[k]]

\* the ids no committed row and no request in flight holds
FreeConvIds ==
    {c \in ConvIds : convs[c] = NoRow
                      /\ \A r \in ReqIds : reqs[r].kind \in {"none", "position"} \/ reqs[r].conv # c}

FreeFundIds == {f \in FundIds : funds[f] = NoRow}

Min(S) == CHOOSE x \in S : \A y \in S : x <= y

\* the slot a new request is served in: the first idle one, none when all are busy
FreeSlot ==
    LET idle == {r \in ReqIds : reqs[r] = NoReq}
    IN  IF idle = {} THEN 0 ELSE Min(idle)

ChatInit ==
    /\ convs = [c \in ConvIds |-> NoRow]
    /\ funds = [f \in FundIds |-> NoRow]
    /\ positions = <<>>
    /\ reqs = [r \in ReqIds |-> NoReq]
    /\ served = 0
    /\ response = NoReq

\* chat up to its await of the intent agent: the conversation is loaded, or
\* created and flushed, and the user message is added to it
chat_begin(r, conversation_id, fund_id, message) ==
    /\ r = FreeSlot
    /\ served < MaxServed
    /\ served' = served + 1
    /\ IF conversation_id \in ConvIds /\ convs[conversation_id] # NoRow
       THEN /\ Len(convs[conversation_id].messages) + 2 <= MaxMsgs
            /\ reqs' = [reqs EXCEPT ![r] =
                    [kind |-> "chat", conv |-> conversation_id, created |-> FALSE,
                     message |-> message,
                     conversation |-> [convs[conversation_id] EXCEPT
                        !.messages = add_message(@, "user", message)]]]
       ELSE /\ FreeConvIds # {}
            /\ reqs' = [reqs EXCEPT ![r] =
                    [kind |-> "chat", conv |-> Min(FreeConvIds), created |-> TRUE,
                     message |-> message,
                     conversation |->
                        [fund_id |-> fund_id,
                         phase |-> IF fund_id = NoFundId THEN "creation" ELSE "management",
                         messages |-> add_message(<<>>, "user", message),
                         state |-> None]]]
    /\ UNCHANGED <<convs, funds, positions, response, pipeVars>>

\* ', '.join(strings)
RECURSIVE JoinComma(_)
JoinComma(strings) ==
    IF strings = <<>> THEN ""
    ELSE IF Len(strings) = 1 THEN strings[1]
    ELSE strings[1] \o ", " \o JoinComma(Tail(strings))

\* the text chat answers an intent with
ResponseText(intent, intent_type) ==
    CASE intent_type = "create_fund" ->
            LET fund_params == Get(intent, "fund_params", EmptyMap)
                themes == Get(fund_params, "themes", <<>>)
                specific_stocks == Get(fund_params, "specific_stocks", <<>>)
            IN  "Creating **" \o FundName(fund_params) \o "**! "
                \o (IF themes # <<>> THEN "Focused on " \o JoinComma(themes) \o ". " ELSE "")
                \o (IF specific_stocks # <<>>
                    THEN "Including " \o JoinComma(specific_stocks) \o ". " ELSE "")
                \o "Now scouting for opportunities..."
      [] intent_type = "query_performance" -> "Let me check the fund's performance for you."
      [] intent_type = "query_risk" -> "I'll run a risk analysis on your portfolio."
      [] intent_type = "command_trade" ->
            LET trade == Get(intent, "trade_params", EmptyMap)
            IN  "You want to " \o Get(trade, "action", "") \o " " \o Get(trade, "ticker", "")
                \o ". Let me confirm: Should I proceed with this trade?"
      [] intent_type = "unclear" ->
            Get(intent, "clarification_needed", "Could you tell me more about what you'd like to do?")
      [] OTHER -> Get(intent, "suggested_response", "I'm processing your request...")

\* the actions chat proposes for an intent
ProposedActions(intent_type) ==
    CASE intent_type = "create_fund" -> <<"scouting", "analyzing", "building_portfolio">>
      [] intent_type = "query_performance" -> <<"fetch_performance">>
      [] intent_type = "query_risk" -> <<"run_risk_analysis">>
      [] intent_type = "command_trade" -> <<"confirm_trade">>
      [] OTHER -> None

\* the rollback of get_session and the HTTPException of the route
Http500(r) ==
    /\ reqs' = [reqs EXCEPT ![r] = NoReq]
    /\ response' = [kind |-> reqs[r].kind, status |-> 500]
    /\ UNCHANGED <<convs, funds, positions, served>>

\* a commit that would write every column of the conversation as the session holds it
CommittedWholeRow(row, conversation, created, changed) == conversation

\* the row a session commits for its conversation: an INSERT of the row it
\* created, else an UPDATE of the columns it changed
Committed(row, conversation, created, changed) ==
    IF created THEN conversation
    ELSE [col \in DOMAIN row |-> IF col \in changed THEN conversation[col] ELSE row[col]]

\* chat after the intent agent returned, to its commit and return
chat_respond(r, intent) ==
    /\ reqs[r].kind = "chat"
    /\ LET conversation == reqs[r].conversation
           intent_type == LowerIntent(Get(intent, "intent", "unclear"))
           response_text == ResponseText(intent, intent_type)
           fund_params == Get(intent, "fund_params", EmptyMap)
           fund_name == FundName(fund_params)
           slug == Slugify(fund_name)
           new_id == Min(FreeFundIds)
       IN  IF intent_type = "create_fund"
           THEN IF \E f \in FundIds : funds[f] # NoRow /\ funds[f].slug = slug
                THEN \* the flush of the new fund violates the unique slug
                     Http500(r)
                ELSE /\ FreeFundIds # {}
                     /\ funds' = [funds EXCEPT ![new_id] =
                            [name |-> fund_name, slug |-> slug, status |-> "building"]]
                     /\ convs' = [convs EXCEPT ![reqs[r].conv] =
                            Committed(@, [conversation EXCEPT
                                !.fund_id = new_id,
                                !.state = [phase |-> "scouting", fund_params |-> fund_params,
                                           fund_id |-> new_id],
                                !.messages = add_message(@, "assistant", response_text)],
                                reqs[r].created, {"fund_id", "state", "messages"})]
                     /\ reqs' = [reqs EXCEPT ![r] = NoReq]
                     /\ response' = [kind |-> "chat", status |-> 200, intent |-> intent_type,
                                     actions |-> ProposedActions(intent_type)]
                     /\ UNCHANGED <<positions, served>>
           ELSE /\ convs' = [convs EXCEPT ![reqs[r].conv] =
                        Committed(@, [conversation EXCEPT
                            !.messages = add_message(@, "assistant", response_text)],
                            reqs[r].created, {"messages"})]
                /\ reqs' = [reqs EXCEPT ![r] = NoReq]
                /\ response' = [kind |-> "chat", status |-> 200, intent |-> intent_type,
                                actions |-> ProposedActions(intent_type)]
                /\ UNCHANGED <<funds, positions, served>>
    /\ UNCHANGED pipeVars

\* the intent agent, or a statement of the session, raises: the session is
\* rolled back and the route answers 500
chat_raises(r) ==
    /\ reqs[r].kind = "chat"
    /\ Http500(r)
    /\ UNCHANGED pipeVars

\* the actions execute_action has a branch for
KnownActions == {"scouting", "analyzing", "building_portfolio"}
\* the actions chat proposes without a branch of execute_action, and a stray one
OtherActions == {"fetch_performance", "run_risk_analysis", "confirm_trade", "rebalance"}

\* execute_action up to its first await: the conversation is loaded and its
\* state read; a missing conversation raises 404, which the route's handler
\* turns into 500; an action without a branch is answered at once
execute_begin(r, conversation_id, action) ==
    /\ r = FreeSlot
    /\ served < MaxServed
    /\ served' = served + 1
    /\ IF convs[conversation_id] = NoRow
       THEN /\ response' = [kind |-> "exec", status |-> 500]
            /\ UNCHANGED reqs
       ELSE IF action \notin KnownActions
       THEN /\ response' = [kind |-> "exec", status |-> 200,
                            result |-> [status |-> "unknown_action", action |-> action]]
            /\ UNCHANGED reqs
       ELSE LET loaded == convs[conversation_id].state
                \* state = conversation.state or {}
                fresh == loaded = None \/ loaded = EmptyMap
            IN  /\ reqs' = [reqs EXCEPT ![r] =
                        [kind |-> "exec", conv |-> conversation_id, action |-> action,
                         state |-> IF fresh THEN EmptyMap ELSE loaded,
                         fresh |-> fresh]]
                /\ UNCHANGED response
    /\ UNCHANGED <<convs, funds, positions, pipeVars>>

\* conversation.state = state; commit. A dict created by the handler is a new
\* value of the attribute and is written. The dict loaded with the row and
\* changed in place is the attribute's own value: whether the unit of work sees
\* a change in it depends on the mapper's change detection, so both outcomes
\* are taken.
CommitState(r, state, detected) ==
    IF reqs[r].fresh \/ detected
    THEN [convs EXCEPT ![reqs[r].conv].state = state]
    ELSE convs

\* the hot stocks a discovery of the model returns
HotAnswers == {<<>>, <<"NVDA">>, <<"NVDA", "AMD">>}

\* branch scouting after the discovery returned
execute_scouting(r, hot_stocks, detected) ==
    /\ reqs[r].kind = "exec" /\ reqs[r].action = "scouting"
    /\ LET hot_tickers == Take(hot_stocks, 10)
           state == Put(Put(reqs[r].state, "discovered_stocks", hot_tickers),
                        "phase", "discovered")
       IN  /\ convs' = CommitState(r, state, detected)
           /\ response' = [kind |-> "exec", status |-> 200,
                           result |-> [status |-> "complete", action |-> "scouting"]]
    /\ reqs' = [reqs EXCEPT ![r] = NoReq]
    /\ UNCHANGED <<funds, positions, served, pipeVars>>

\* what analyze_stock does for one ticker in the model
StockOutcomes ==
    {Returned([thesis |-> [recommendation |-> "BUY", conviction |-> 8]]), Raised("timeout")}

RECURSIVE ThesesOf(_, _, _)
\* the theses of the loop over the tickers, a failed ticker skipped
ThesesOf(tickers, outcomes, k) ==
    IF k = 0 THEN <<>>
    ELSE LET rest == ThesesOf(tickers, outcomes, k - 1)
             thesis == Get(outcomes[k].val, "thesis", EmptyMap)
         IN  IF outcomes[k].st = "raised" THEN rest
             ELSE Append(rest, [ticker |-> tickers[k],
                                recommendation |-> Get(thesis, "recommendation", None),
                                conviction |-> Get(thesis, "conviction", None),
                                thesis_summary |-> Get(thesis, "thesis_summary", None)])

\* branch analyzing after the loop over the first 5 discovered stocks
execute_analyzing(r, outcomes, detected) ==
    /\ reqs[r].kind = "exec" /\ reqs[r].action = "analyzing"
    /\ LET tickers == Take(Get(reqs[r].state, "discovered_stocks", <<>>), 5)
       IN  /\ Len(outcomes) = Len(tickers)
           /\ LET theses == ThesesOf(tickers, outcomes, Len(tickers))
                  state == Put(Put(reqs[r].state, "theses", theses), "phase", "analyzed")
              IN  /\ convs' = CommitState(r, state, detected)
                  /\ response' = [kind |-> "exec", status |-> 200,
                                  result |-> [status |-> "complete", action |-> "analyzing"]]
    /\ reqs' = [reqs EXCEPT ![r] = NoReq]
    /\ UNCHANGED <<funds, positions, served, pipeVars>>

\* the portfolios the pm agent returns in the model
PortfolioAnswers ==
    {[positions |-> <<[ticker |-> "NVDA"]>>],
     [allocations |-> <<[ticker |-> "AMD"], [company |-> "unnamed"]>>],
     [positions |-> <<[ticker |-> "NVDA"], [ticker |-> "NVDA"]>>],
     EmptyMap}

RECURSIVE NewPositions(_, _, _)
\* the Position rows of the allocations that carry a ticker
NewPositions(fund_id, allocations, k) ==
    IF k = 0 THEN <<>>
    ELSE LET rest == NewPositions(fund_id, allocations, k - 1)
             ticker == Get(allocations[k], "ticker", None)
         IN  IF "ticker" \notin DOMAIN allocations[k] THEN rest
             ELSE Append(rest, [fund_id |-> fund_id, ticker |-> ticker, status |-> "proposed"])

\* branch building_portfolio after the pm agent returned
execute_building_portfolio(r, portfolio, detected) ==
    /\ reqs[r].kind = "exec" /\ reqs[r].action = "building_portfolio"
    /\ LET fund_id == Get(reqs[r].state, "fund_id", NoFundId)
           allocations == Get(portfolio, "positions", Get(portfolio, "allocations", <<>>))
           created == IF fund_id # NoFundId /\ portfolio # EmptyMap
                      THEN NewPositions(fund_id, allocations, Len(allocations))
                      ELSE <<>>
           state == Put(Put(reqs[r].state, "proposed_portfolio", portfolio),
                        "phase", "complete")
       IN  /\ Len(positions) + Len(created) <= MaxPositions
           /\ positions' = positions \o created
           /\ funds' = IF fund_id # NoFundId /\ portfolio # EmptyMap /\ funds[fund_id] # NoRow
                       THEN [funds EXCEPT ![fund_id].status = "active"]
                       ELSE funds
           /\ convs' = CommitState(r, state, detected)
           /\ response' = [kind |-> "exec", status |-> 200,
                           result |-> [status |-> "complete", action |-> "building_portfolio"]]
    /\ reqs' = [reqs EXCEPT ![r] = NoReq]
    /\ UNCHANGED <<served, pipeVars>>

\* the pipeline, the pm agent or a statement of the session raises: the
\* session is rolled back and the route answers 500
execute_raises(r) ==
    /\ reqs[r].kind = "exec"
    /\ Http500(r)
    /\ UNCHANGED pipeVars

----------------------------------------------------------------------------
(* api/routes/funds.py: add_position *)

\* the tickers add_position is asked for
PositionTickers == {"nvda"}

\* request.ticker.upper() on the tickers of the model
UpperTicker(ticker) == IF ticker = "nvda" THEN "NVDA" ELSE ticker

\* the rows of table positions of a fund and a ticker
PositionsOf(fund_id, ticker) ==
    {k \in 1..Len(positions) : positions[k].fund_id = fund_id /\ positions[k].ticker = ticker}

\* add_position up to its commit: the fund and the position are looked up. A
\* missing fund is answered 404; scalar_one_or_none raises when more than one
\* row matches, which nothing catches (500).
add_position_begin(r, fund_id, ticker) ==
    /\ r = FreeSlot
    /\ served < MaxServed
    /\ served' = served + 1
    /\ IF funds[fund_id] = NoRow
       THEN /\ response' = [kind |-> "position", status |-> 404]
            /\ UNCHANGED reqs
       ELSE IF Cardinality(PositionsOf(fund_id, UpperTicker(ticker))) > 1
       THEN /\ response' = [kind |-> "position", status |-> 500]
            /\ UNCHANGED reqs
       ELSE /\ reqs' = [reqs EXCEPT ![r] =
                    [kind |-> "position", fund_id |-> fund_id, ticker |-> UpperTicker(ticker),
                     existing |-> PositionsOf(fund_id, UpperTicker(ticker)) # {}]]
            /\ UNCHANGED response
    /\ UNCHANGED <<convs, funds, positions, pipeVars>>

\* add_position, its commit: the weight of the existing row is updated, or a
\* new row in status active is inserted
add_position_commit(r) ==
    /\ reqs[r].kind = "position"
    /\ IF reqs[r].existing
       THEN UNCHANGED positions
       ELSE /\ Len(positions) < MaxPositions
            /\ positions' = Append(positions,
                    [fund_id |-> reqs[r].fund_id, ticker |-> reqs[r].ticker, status |-> "active"])
    /\ reqs' = [reqs EXCEPT ![r] = NoReq]
    /\ response' = [kind |-> "position", status |-> 200]
    /\ UNCHANGED <<convs, funds, served, pipeVars>>

----------------------------------------------------------------------------
(* The pipelines: one call of discover, of AnalysisPipeline.analyze or of
   RiskPipeline.analyze, from its invocation to its return *)

PipeInit ==
    /\ pc = "idle"
    /\ args = NoCall
    /\ tasks = <<>>
    /\ results = <<>>
    /\ calls = [a \in Agents |-> 0]
    /\ all_stocks = <<>>
    /\ unique_stocks = <<>>
    /\ context = None
    /\ output = None

Init == PipeInit /\ ChatInit

Next ==
    \/ \E themes \in SeqsUpTo(Themes, MaxThemes), mandate \in Mandates, run_all \in BOOLEAN :
            discover(themes, mandate, run_all)
    \/ \E i \in 1..Len(tasks), tks \in SeqsUpTo(Tickers \cup {NoTicker}, MaxStocks) :
            ScoutReturns(i, tks)
    \/ \E i \in 1..Len(tasks), m \in ScoutErrMsgs : ScoutRaises(i, m)
    \/ discoverAggregate
    \/ \E screened \in ScreenerAnswers(unique_stocks) : discoverReturn(screened)
    \/ \E m \in ScoutErrMsgs : discoverScreenerRaises(m)
    \/ \E ticker \in Tickers : analyze(ticker)
    \/ \E i \in 1..Len(tasks), score \in Scores : ResearchReturns(i, score)
    \/ \E i \in 1..Len(tasks), m \in ErrMsgs : ResearchRaises(i, m)
    \/ analyzeSynthesize
    \/ \E thesis \in ThesisAnswers : analyzeReturn(thesis)
    \/ \E m \in ErrMsgs : analyzeThesisRaises(m)
    \/ \E run_full \in BOOLEAN : risk_analyze(run_full)
    \/ \E i \in 1..Len(tasks), answer \in UNION {RiskAnswers(a) : a \in RiskAgents} :
            RiskAgentReturns(i, answer)
    \/ \E i \in 1..Len(tasks), m \in ErrMsgs : RiskAgentRaises(i, m)
    \/ risk_compile

Spec == Init /\ [][Next]_vars

\* the requests the conversation routes serve, two at a time
ChatNext ==
    \/ \E r \in ReqIds, conversation_id \in ConvIds, fund_id \in {NoFundId} \cup FundIds,
          message \in UserTexts :
            chat_begin(r, conversation_id, fund_id, message)
    \/ \E r \in ReqIds, intent \in IntentAnswers : chat_respond(r, intent)
    \/ \E r \in ReqIds : chat_raises(r)
    \/ \E r \in ReqIds, conversation_id \in ConvIds, action \in KnownActions \cup OtherActions :
            execute_begin(r, conversation_id, action)
    \/ \E r \in ReqIds, hot_stocks \in HotAnswers, detected \in BOOLEAN :
            execute_scouting(r, hot_stocks, detected)
    \/ \E r \in ReqIds, outcomes \in SeqsUpTo(StockOutcomes, 2), detected \in BOOLEAN :
            execute_analyzing(r, outcomes, detected)
    \/ \E r \in ReqIds, portfolio \in PortfolioAnswers, detected \in BOOLEAN :
            execute_building_portfolio(r, portfolio, detected)
    \/ \E r \in ReqIds : execute_raises(r)
    \/ \E r \in ReqIds, fund_id \in FundIds, ticker \in PositionTickers :
            add_position_begin(r, fund_id, ticker)
    \/ \E r \in ReqIds : add_position_commit(r)

SpecChat == Init /\ [][ChatNext]_vars

\* the chat turns alone, two at a time, on conversations without a fund of
\* their own at creation and with one user text
TurnNext ==
    \/ \E r \in ReqIds, conversation_id \in ConvIds :
            chat_begin(r, conversation_id, NoFundId, "how risky is it")
    \/ \E r \in ReqIds, intent \in IntentAnswers : chat_respond(r, intent)
    \/ \E r \in ReqIds : chat_raises(r)

SpecTurns == Init /\ [][TurnNext]_vars

\* the pipelines again, each scout listing at most one stock: the fan-in does
\* not read what a scout lists
FairNext ==
    \/ \E themes \in SeqsUpTo(Themes, MaxThemes), mandate \in TaskMandates, run_all \in BOOLEAN :
            discover(themes, mandate, run_all)
    \/ \E i \in 1..Len(tasks), tks \in SeqsUpTo(Tickers, 1) : ScoutReturns(i, tks)
    \/ \E i \in 1..Len(tasks), m \in ScoutErrMsgs : ScoutRaises(i, m)
    \/ discoverAggregate
    \/ \E screened \in ScreenerAnswers(unique_stocks) : discoverReturn(screened)
    \/ \E m \in ScoutErrMsgs : discoverScreenerRaises(m)
    \/ \E ticker \in Tickers : analyze(ticker)
    \/ \E i \in 1..Len(tasks), score \in Scores : ResearchReturns(i, score)
    \/ \E i \in 1..Len(tasks), m \in ErrMsgs : ResearchRaises(i, m)
    \/ analyzeSynthesize
    \/ \E thesis \in ThesisAnswers : analyzeReturn(thesis)
    \/ \E m \in ErrMsgs : analyzeThesisRaises(m)
    \/ \E run_full \in BOOLEAN : risk_analyze(run_full)
    \/ \E i \in 1..Len(tasks), answer \in UNION {RiskAnswers(a) : a \in RiskAgents} :
            RiskAgentReturns(i, answer)
    \/ \E i \in 1..Len(tasks), m \in ErrMsgs : RiskAgentRaises(i, m)
    \/ risk_compile

\* an agent call of the running gather returns or raises
AgentCallFinishes ==
    \E i \in 1..Len(tasks) :
        \/ \E tks \in SeqsUpTo(Tickers, 1) : ScoutReturns(i, tks)
        \/ \E score \in Scores : ResearchReturns(i, score)
        \/ \E answer \in UNION {RiskAnswers(a) : a \in RiskAgents} : RiskAgentReturns(i, answer)
        \/ \E m \in ScoutErrMsgs : ScoutRaises(i, m)
        \/ \E m \in ErrMsgs : ResearchRaises(i, m) \/ RiskAgentRaises(i, m)

\* the event loop resumes the coroutine that awaits a gather whose children are done
GatherJoins == discoverAggregate \/ analyzeSynthesize \/ risk_compile

\* every agent call finishes, and the event loop runs what is ready
FairSpec == Init /\ [][FairNext]_vars /\ WF_vars(AgentCallFinishes) /\ WF_vars(GatherJoins)

----------------------------------------------------------------------------
(* Properties of ScoutPipeline.discover *)

Succeeded == {i \in 1..Len(results) : results[i].st = "returned"}
Failed == {i \in 1..Len(results) : results[i].st = "raised"}

\* the tickers scout i returned
ScoutTickers(i) ==
    {results[i].val.stocks[j].ticker : j \in 1..Len(results[i].val.stocks)} \ {NoTicker}

\* the places <<i, j>> at which a scout that succeeded listed ticker t
Occurrences(t) ==
    {<<i, j>> \in Succeeded \X (1..MaxStocks) :
        j <= Len(results[i].val.stocks) /\ results[i].val.stocks[j].ticker = t}

ScoutsListing(t) == {i \in Succeeded : t \in ScoutTickers(i)}

UniqueTickers == {unique_stocks[k].ticker : k \in 1..Len(unique_stocks)}

\* discover has run its steps 3 and 4
Aggregated == args.pipeline = "scout" /\ pc \in {"post", "done"}

\* place p is before place q: an earlier task, or earlier in the same list
Before(p, q) == p[1] < q[1] \/ (p[1] = q[1] /\ p[2] < q[2])

\* C1: the tickers of the deduplicated list are the union of the tickers of the
\* scouts that succeeded, each ticker is there once, and a ticker that two or
\* more scouts returned is flagged on its entry
C1_DedupIsUnion ==
    Aggregated =>
        /\ UniqueTickers = UNION {ScoutTickers(i) : i \in Succeeded}
        /\ \A k1, k2 \in 1..Len(unique_stocks) :
                unique_stocks[k1].ticker = unique_stocks[k2].ticker => k1 = k2
        /\ \A t \in Tickers :
                Cardinality(ScoutsListing(t)) >= 2 =>
                    \E k \in 1..Len(unique_stocks) :
                        unique_stocks[k].ticker = t /\ unique_stocks[k]._multi_scout

\* a run in which two scouts returned the same ticker and another scout failed
C1_Witness ==
    /\ Aggregated /\ pc = "done"
    /\ \E t \in Tickers : Cardinality(ScoutsListing(t)) >= 2
    /\ Len(unique_stocks) = 1 /\ Len(all_stocks) = 2
    /\ Failed # {}

\* the tasks are in the order emerging leaders, smart money, disruption, thematic
\* scouts in theme order
TaskListOrder ==
    LET n == Len(tasks)
        nt == Len(args.themes)
    IN  /\ tasks[1].name = "Emerging Leaders" /\ tasks[2].name = "Smart Money"
        /\ n - nt \in {2, 3}
        /\ n - nt = 3 => tasks[3].name = "Disruption"
        /\ \A k \in 1..nt :
                tasks[n - nt + k].name = "Thematic" /\ tasks[n - nt + k].theme = args.themes[k]

\* C2: the entry kept for a ticker is its occurrence in the earliest task of the
\* task list, with the fields and the scout name of that occurrence, and the
\* merged list is in the order of these first occurrences, whatever the order in
\* which the scouts completed
C2_FirstTaskWins ==
    Aggregated =>
        /\ TaskListOrder
        /\ \A k \in 1..Len(unique_stocks) :
            LET e == unique_stocks[k] IN
                /\ e.pick \in Occurrences(e.ticker)
                /\ \A o \in Occurrences(e.ticker) : o = e.pick \/ Before(e.pick, o)
                /\ e._source = [name |-> tasks[e.pick[1]].name, theme |-> tasks[e.pick[1]].theme]
        /\ \A k1, k2 \in 1..Len(unique_stocks) :
                k1 < k2 => Before(unique_stocks[k1].pick, unique_stocks[k2].pick)

\* a ticker listed by two tasks of the list, its kept entry flagged
C2_Witness ==
    /\ Aggregated
    /\ \E t \in Tickers : \E p, q \in Occurrences(t) : p[1] < q[1]
    /\ \E k \in 1..Len(unique_stocks) : unique_stocks[k]._multi_scout

\* C3: whichever scouts raise, discover raises only if the screener does; the
\* scouts that failed add nothing to all_stocks, every stock of every scout that
\* succeeded is in it, and the screener is called once, on the deduplicated list
C3_ScoutFailuresContained ==
    args.pipeline = "scout" =>
        /\ pc = "raised" => output.raised_by = "screener"
        /\ pc = "gather" => calls["screener"] = 0
        /\ pc \in {"post", "done", "raised"} =>
            /\ calls["screener"] = 1
            /\ context.scout_results = unique_stocks
            /\ Len(all_stocks) = Found(results)
            /\ \A k \in 1..Len(all_stocks) : all_stocks[k].pick[1] \in Succeeded
            /\ \A i \in Succeeded : \A j \in 1..Len(results[i].val.stocks) :
                    \E k \in 1..Len(all_stocks) : all_stocks[k].pick = <<i, j>>

\* discover returned although a scout raised, with the stocks of another scout
C3_Witness ==
    /\ args.pipeline = "scout" /\ pc = "done"
    /\ Failed # {}
    /\ \E i \in Succeeded : results[i].val.stocks # <<>>
    /\ all_stocks # <<>>

----------------------------------------------------------------------------
(* Properties of the fan-out and fan-in of the three pipelines *)

Joined == pc \in {"post", "done", "raised"}

\* a step in which a sibling finishes leaves every other slot as it was, and a
\* finished slot is never changed
SiblingsUntouched ==
    pc = "gather" /\ pc' = "gather" =>
        /\ Len(results') = Len(results)
        /\ \A i \in 1..Len(results) :
                results[i].st # "running" => results'[i] = results[i]
        /\ \A i, j \in 1..Len(results) :
                (i # j /\ results'[j] # results[j]) => results'[i] = results[i]

\* C4: in each pipeline the sibling calls are started together, one per task; the
\* step after the gather starts only when every sibling has returned or raised; a
\* sibling that raises leaves the others running; and if every agent call
\* finishes the pipeline reaches its join
C4_FanOutFanIn ==
    /\ [](pc # "idle" =>
            /\ Len(results) = Len(tasks)
            /\ \A a \in Agents \ {"screener", "thesis_writer"} :
                    calls[a] = Cardinality({i \in 1..Len(tasks) : tasks[i].agent = a}))
    /\ [](Joined => AllFinished(results))
    /\ [][SiblingsUntouched]_vars
    /\ (pc = "gather" ~> Joined)

\* a gather in which one sibling has raised and another is still running
C4_Witness ==
    /\ pc = "gather"
    /\ \E i, j \in 1..Len(results) : results[i].st = "raised" /\ results[j].st = "running"

----------------------------------------------------------------------------
(* Properties of AnalysisPipeline.analyze *)

ResearchKeys == <<"fundamentals", "moat", "sentiment", "valuation">>

\* C5: whichever research branches raise, analyze raises only if the thesis
\* writer does, the thesis writer is called once, and its answer is the thesis
C5_AlwaysSynthesizes ==
    args.pipeline = "analysis" =>
        /\ pc = "raised" => output.raised_by = "thesis_writer"
        /\ pc = "gather" => calls["thesis_writer"] = 0
        /\ Joined => calls["thesis_writer"] = 1
        /\ pc = "done" => output.thesis \in ThesisAnswers

\* analyze returned a thesis although all four research branches raised
C5_Witness ==
    /\ args.pipeline = "analysis" /\ pc = "done"
    /\ Failed = 1..4
    /\ output.thesis \in ThesisAnswers

\* C6 as stated: the context of the thesis writer holds {_error: message} under
\* the key of a branch that raised, as the returned research mapping does
C6_ContextCarriesError ==
    (args.pipeline = "analysis" /\ pc \in {"post", "done"}) =>
        \A i \in 1..4 :
            IF results[i].st = "raised"
            THEN /\ "_error" \in DOMAIN context[ResearchKeys[i]]
                 /\ context[ResearchKeys[i]]._error = results[i].msg
                 /\ pc = "done" => output.research[ResearchKeys[i]] = [_error |-> results[i].msg]
            ELSE context[ResearchKeys[i]] = results[i].val

\* C6 amended: under the key of a branch that raised the context holds the empty
\* mapping and the returned research mapping holds {_error: message}; a branch
\* that succeeded is under its own key, unchanged, in both
C6_ContextEmptyResearchError ==
    (args.pipeline = "analysis" /\ pc \in {"post", "done"}) =>
        \A i \in 1..4 :
            IF results[i].st = "raised"
            THEN /\ context[ResearchKeys[i]] = <<>>
                 /\ pc = "done" => output.research[ResearchKeys[i]] = [_error |-> results[i].msg]
            ELSE /\ context[ResearchKeys[i]] = results[i].val
                 /\ context[ResearchKeys[i]].analysis = tasks[i].name
                 /\ pc = "done" => output.research[ResearchKeys[i]] = results[i].val

\* fundamentals and moat raised, sentiment and valuation succeeded
C6_Witness ==
    /\ args.pipeline = "analysis" /\ pc = "done"
    /\ Failed = {1, 2} /\ Succeeded = {3, 4}

----------------------------------------------------------------------------
(* Properties of RiskPipeline.analyze *)

ReportSlots == <<"stress_tests", "var", "monte_carlo", "correlations">>

\* C7: whichever risk branches raise, analyze does not raise, and in the report
\* the slot of a branch that raised holds {_error: message} and the slot of a
\* branch that succeeded holds the answer of the agent of that branch
C7_RiskSlots ==
    args.pipeline = "risk" =>
        /\ pc # "raised"
        /\ pc = "done" =>
            \A i \in 1..Len(tasks) :
                IF results[i].st = "raised"
                THEN output[ReportSlots[i]] = [_error |-> results[i].msg]
                ELSE /\ output[ReportSlots[i]] = results[i].val
                     /\ output[ReportSlots[i]].by = tasks[i].agent

\* a full report with a slot that holds an error and a slot that holds a result
C7_Witness ==
    /\ args.pipeline = "risk" /\ pc = "done" /\ args.run_full
    /\ Failed # {} /\ Succeeded # {}
    /\ \E i \in Failed : "_error" \in DOMAIN output[ReportSlots[i]]

\* C8: without run_full only the stress test and VaR agents are called and the
\* report's monte_carlo and correlations are None; with run_full each of the
\* four agents is called once
C8_RunFull ==
    args.pipeline = "risk" =>
        /\ calls["stress_test_agent"] = 1 /\ calls["var_agent"] = 1
        /\ calls["monte_carlo_agent"] = (IF args.run_full THEN 1 ELSE 0)
        /\ calls["correlation_agent"] = (IF args.run_full THEN 1 ELSE 0)
        /\ \A a \in Agents \ RiskAgents : calls[a] = 0
        /\ Len(tasks) = (IF args.run_full THEN 4 ELSE 2)
        /\ (pc = "done" /\ ~args.run_full) =>
                output.monte_carlo = None /\ output.correlations = None
        /\ (pc = "done" /\ args.run_full) =>
                output.monte_carlo # None /\ output.correlations # None

\* a report of a run without run_full
C8_Witness ==
    /\ args.pipeline = "risk" /\ pc = "done" /\ ~args.run_full
    /\ output.monte_carlo = None

----------------------------------------------------------------------------
(* The conversation: phase and message history *)

\* the phase of a conversation: the phase of its stage payload once there is
\* one, else the phase it was created in
Phase(row) == Get(row.state, "phase", row.phase)

\* the order creation/management, scouting, discovered, analyzed, complete
PhaseRank(phase) ==
    CASE phase \in {"creation", "management"} -> 0
      [] phase = "scouting" -> 1
      [] phase = "discovered" -> 2
      [] phase = "analyzed" -> 3
      [] phase = "complete" -> 4

IsPrefix(p, q) == Len(p) <= Len(q) /\ SubSeq(q, 1, Len(p)) = p

\* request r is a chat turn that this step answers with 200
TurnSucceeds(r) ==
    /\ reqs[r].kind = "chat"
    /\ reqs'[r] = NoReq
    /\ response'.status = 200

\* C9: in every step of the routes the phase of every stored conversation
\* stays where it is or moves forward along creation/management, scouting,
\* discovered, analyzed, complete; and a turn on a stored conversation that is
\* classified unclear leaves its phase unchanged.
C9_PhaseNeverBackward ==
    [][/\ \A c \in ConvIds :
            convs[c] # NoRow =>
                /\ convs'[c] # NoRow
                /\ PhaseRank(Phase(convs'[c])) >= PhaseRank(Phase(convs[c]))
       /\ \A r \in ReqIds :
            (TurnSucceeds(r) /\ response'.intent = "unclear" /\ ~reqs[r].created) =>
                Phase(convs'[reqs[r].conv]) = Phase(convs[reqs[r].conv])]_vars

\* C10: every committed message history has the history committed before it
\* as a prefix, and a successful turn adds to the committed history its user
\* message followed by one assistant message.
C10_HistoryAppendOnly ==
    [][/\ \A c \in ConvIds :
            convs[c] # NoRow =>
                /\ convs'[c] # NoRow
                /\ IsPrefix(convs[c].messages, convs'[c].messages)
       /\ \A r \in ReqIds :
            TurnSucceeds(r) =>
                LET c == reqs[r].conv
                    before == IF convs[c] = NoRow THEN <<>> ELSE convs[c].messages
                    after == convs'[c].messages
                IN  /\ Len(after) = Len(before) + 2
                    /\ SubSeq(after, 1, Len(before)) = before
                    /\ after[Len(before) + 1] = [role |-> "user", content |-> reqs[r].message]
                    /\ after[Len(before) + 2].role = "assistant"]_vars

----------------------------------------------------------------------------
(* The conversation routes: failures *)

\* C11: when the intent agent of a chat turn, or the pipeline or agent of an
\* execute-action call, raises, the call is answered with a result (status 200)
\* and the committed tables are as they were before the call's last step.
C11_FailureReportedInBand ==
    [][\A r \in ReqIds :
            (chat_raises(r) \/ execute_raises(r)) =>
                /\ response'.status = 200
                /\ convs' = convs /\ funds' = funds /\ positions' = positions]_vars

----------------------------------------------------------------------------
(* BaseAgent._parse_json, on texts that are sequences of tokens *)

\* longest response text, in tokens
MaxTextLen == 4
\* deepest nesting json.loads decodes: beyond it, RecursionError (the
\* interpreter's recursion limit, scaled to the texts of the model)
RecursionLimit == 3

\* "FJ" is ```json, "F" is ```, "x" a scalar, "p" a word of prose; white space
\* is left out: strip(), the \s* of the patterns and json.loads all skip it
Tokens == {"FJ", "F", "{", "}", "[", "]", "x", "p"}
Fences == {"FJ", "F"}
Texts == SeqsUpTo(Tokens, MaxTextLen)

\* least index from k on at which seq holds a token of S, 0 if there is none
RECURSIVE FirstIndex(_, _, _)
FirstIndex(seq, S, k) ==
    IF k > Len(seq) THEN 0
    ELSE IF seq[k] \in S THEN k
    ELSE FirstIndex(seq, S, k + 1)

\* greatest index up to k at which seq holds a token of S, 0 if there is none
RECURSIVE LastIndex(_, _, _)
LastIndex(seq, S, k) ==
    IF k < 1 THEN 0
    ELSE IF seq[k] \in S THEN k
    ELSE LastIndex(seq, S, k - 1)

Closes(open, close) == (open = "{" /\ close = "}") \/ (open = "[" /\ close = "]")

\* the scan of json.loads from token k on: stack holds the open brackets, done
\* says that the value is complete (anything after it is extra data)
RECURSIVE Scan(_, _, _, _)
Scan(tokens, k, stack, done) ==
    IF k > Len(tokens) THEN (IF done THEN "ok" ELSE "JSONDecodeError")
    ELSE IF done THEN "JSONDecodeError"
    ELSE IF tokens[k] = "x" THEN Scan(tokens, k + 1, stack, stack = <<>>)
    ELSE IF tokens[k] \in {"{", "["}
         THEN IF Len(stack) + 1 > RecursionLimit THEN "RecursionError"
              ELSE Scan(tokens, k + 1, Append(stack, tokens[k]), FALSE)
    ELSE IF tokens[k] \in {"}", "]"}
         THEN IF stack = <<>> \/ ~Closes(stack[Len(stack)], tokens[k]) THEN "JSONDecodeError"
              ELSE Scan(tokens, k + 1, SubSeq(stack, 1, Len(stack) - 1), Len(stack) = 1)
    ELSE "JSONDecodeError"

\* json.loads(tokens): "ok" (the value is the tokens), or the exception raised
Loads(tokens) == Scan(tokens, 1, <<>>, FALSE)

\* re.search(open fence, then the shortest text up to the next ```): the group,
\* or the whole text where the pattern does not match. ```json begins with ```,
\* so either fence closes the group.
FenceGroup(text, open) ==
    LET i == FirstIndex(text, {open}, 1)
        j == IF i = 0 THEN 0 ELSE FirstIndex(text, Fences, i + 1)
    IN  IF j = 0 THEN text ELSE SubSeq(text, i + 1, j - 1)

\* clean: the text of the first ```json block, else of the first ``` block, else text
Clean(text) ==
    IF "FJ" \in Range(text) THEN FenceGroup(text, "FJ")
    ELSE IF "F" \in Range(text) THEN FenceGroup(text, "F")
    ELSE text

\* re.search(r'\{[\s\S]*\}', text): from the first { to the last } after it
BraceGroup(text) ==
    LET a == FirstIndex(text, {"{"}, 1)
        b == LastIndex(text, {"}"}, Len(text))
    IN  IF a = 0 \/ b < a THEN <<>> ELSE SubSeq(text, a, b)

\* the decoded value of a text that json.loads accepts
Decoded(tokens) == [value |-> tokens]

\* the result of _parse_json for a text nothing could be decoded from
Tagged(text) ==
    [_raw |-> text, _parse_error |-> TRUE,
     _error_message |-> "Failed to parse JSON from response"]

\* _parse_json: the first json.loads is guarded by except json.JSONDecodeError
\* only, the second by a bare except
ParseJson(text) ==
    LET first == Loads(Clean(text)) IN
    IF first = "ok" THEN Returned(Decoded(Clean(text)))
    ELSE IF first = "JSONDecodeError"
         THEN IF BraceGroup(text) # <<>> /\ Loads(BraceGroup(text)) = "ok"
              THEN Returned(Decoded(BraceGroup(text)))
              ELSE Returned(Tagged(text))
    ELSE Raised(first)

\* one call of _parse_json
parse_json(text) ==
    /\ pc = "idle"
    /\ args' = [pipeline |-> "parse_json", text |-> text]
    /\ LET result == ParseJson(text)
       IN  IF result.st = "raised"
           THEN pc' = "raised" /\ output' = [raised_by |-> "_parse_json", msg |-> result.msg]
           ELSE pc' = "done" /\ output' = result.val
    /\ UNCHANGED <<tasks, results, calls, all_stocks, unique_stocks, context, chatVars>>

\* worst-case declines a stress-test result may carry: on both sides of each
\* threshold, without sign or percent, and not a number
Declines ==
    {"-25%", "-25.1%", "-30%", "-35%", "-35.1%", "-50%", "-50.1%", "-55%", "100%", "40",
     "severe", "-%", ""}

\* stress-test results: one for each decline, and the slot of a failed stress test
StressResults ==
    {[worst_case_scenario |-> [portfolio_decline |-> d]] : d \in Declines}
    \cup {ErrorMap("stress test down")}

\* one call of _assess_overall_risk
assess_overall_risk(stress) ==
    /\ pc = "idle"
    /\ pc' = "done"
    /\ args' = [pipeline |-> "assess_overall_risk", stress |-> stress]
    /\ output' = [overall_risk_level |-> AssessOverallRisk(stress)]
    /\ UNCHANGED <<tasks, results, calls, all_stocks, unique_stocks, context, chatVars>>

\* stress-test results with no flag, one flag, three flags, and the same flag twice
FlaggedStressResults ==
    {[risk_flags |-> f] :
        f \in {<<>>, <<"Rate sensitivity">>,
               <<"Tech concentration", "High beta", "Illiquid names">>,
               <<"Tech concentration", "Tech concentration">>}}
    \cup {ErrorMap("stress test down")}

\* one call of _identify_flags; corr is {} when run_full is off
identify_flags(stress, var, corr) ==
    /\ pc = "idle"
    /\ pc' = "done"
    /\ args' = [pipeline |-> "identify_flags", stress |-> stress, var |-> var, corr |-> corr]
    /\ output' = [risk_flags |-> IdentifyFlags(stress, var, corr)]
    /\ UNCHANGED <<tasks, results, calls, all_stocks, unique_stocks, context, chatVars>>

\* the functions that are called on their own
PureNext ==
    \/ \E text \in Texts : parse_json(text)
    \/ \E stress \in StressResults : assess_overall_risk(stress)
    \/ \E stress \in FlaggedStressResults,
          var \in RiskAnswers("var_agent") \cup {ErrorMap("var down")},
          corr \in RiskAnswers("correlation_agent") \cup {ErrorMap("correlation down")} :
            identify_flags(stress, var, corr)
    \/ \E stress \in FlaggedStressResults,
          var \in RiskAnswers("var_agent") \cup {ErrorMap("var down")} :
            identify_flags(stress, var, EmptyMap)

PureSpec == Init /\ [][PureNext]_vars

\* C12: _parse_json raises for no text, and where nothing can be decoded it
\* returns the result tagged _parse_error that carries the text unchanged and
\* the message "Failed to parse JSON from response".
C12_ParseJsonNeverRaises ==
    args.pipeline = "parse_json" =>
        /\ pc = "done"
        /\ (Loads(Clean(args.text)) # "ok"
                /\ (BraceGroup(args.text) = <<>> \/ Loads(BraceGroup(args.text)) # "ok")) =>
            output = Tagged(args.text)

\* text[a..b] is presented by text in one of the four ways: inside a ```json
\* block, inside a plain ``` block (prose may surround the block), as the whole
\* text, or with prose before or after it
Presents(text, a, b) ==
    LET pre == SubSeq(text, 1, a - 1)
        post == SubSeq(text, b + 1, Len(text))
        Prose(s) == Range(s) \subseteq {"p"}
    IN  \/ Prose(pre) /\ Prose(post)
        \/ /\ pre # <<>> /\ pre[Len(pre)] \in Fences /\ Prose(SubSeq(pre, 1, Len(pre) - 1))
           /\ post # <<>> /\ post[1] = "F" /\ Prose(SubSeq(post, 2, Len(post)))

\* C13: a structured value (an object or an array that json.loads accepts) is
\* returned as the same value from each of its four presentations: in a
\* ```json block, in a plain ``` block, as the whole text, embedded in prose.
C13_SameValueInEveryPresentation ==
    args.pipeline = "parse_json" =>
        \A a, b \in 1..Len(args.text) :
            LET v == SubSeq(args.text, a, b) IN
            (a <= b /\ v[1] \in {"{", "["} /\ Loads(v) = "ok" /\ Presents(args.text, a, b)) =>
                (pc = "done" /\ output = Decoded(v))

----------------------------------------------------------------------------
(* The risk report: overall_risk_level and risk_flags *)

\* the worst-case decline of a stress-test result, "-50%" where it has none
WorstDecline(stress) ==
    Get(Get(stress, "worst_case_scenario", EmptyMap), "portfolio_decline", "-50%")

\* C14: a risk report whose stress-test result carries a worst-case decline
\* that cannot be parsed as a number has overall_risk_level "HIGH".
C14_UnparsableDeclineIsHigh ==
    (/\ pc = "done" /\ args.pipeline = "risk"
     /\ "worst_case_scenario" \in DOMAIN output.stress_tests
     /\ Float(StripPercentSign(WorstDecline(output.stress_tests))).st = "ValueError") =>
        output.summary.overall_risk_level = "HIGH"

UnparsableDecline ==
    /\ pc = "done" /\ args.pipeline = "risk"
    /\ "worst_case_scenario" \in DOMAIN output.stress_tests
    /\ Float(StripPercentSign(WorstDecline(output.stress_tests))).st = "ValueError"

\* C14, as the code has it: a risk report whose stress-test result carries a
\* worst-case decline that cannot be parsed as a number takes the decline as
\* 50, and its overall_risk_level is "MODERATE-HIGH".
C14_UnparsableDeclineIsModerateHigh ==
    UnparsableDecline => output.summary.overall_risk_level = "MODERATE-HIGH"

C14_Witness ==
    /\ UnparsableDecline
    /\ WorstDecline(output.stress_tests) = "severe"
    /\ output.summary.overall_risk_level = "MODERATE-HIGH"

RiskLevels == {"LOW-MODERATE", "MODERATE", "MODERATE-HIGH", "HIGH"}

\* C15: a worst-case decline that parses, with % and sign stripped and the
\* absolute value taken, to d gives HIGH if d > 50, MODERATE-HIGH if
\* 35 < d <= 50, MODERATE if 25 < d <= 35 and LOW-MODERATE if d <= 25 (d is
\* held in tenths); the level is always one of the four.
C15_LevelThresholds ==
    args.pipeline = "assess_overall_risk" =>
        LET parsed == Float(StripPercentSign(WorstDecline(args.stress)))
            level == output.overall_risk_level
        IN  /\ level \in RiskLevels
            /\ parsed.st = "ok" =>
                  LET d == Abs(parsed.tenths) IN
                  /\ d > 500 => level = "HIGH"
                  /\ (350 < d /\ d <= 500) => level = "MODERATE-HIGH"
                  /\ (250 < d /\ d <= 350) => level = "MODERATE"
                  /\ d <= 250 => level = "LOW-MODERATE"

C15_Witness ==
    /\ args.pipeline = "assess_overall_risk"
    /\ WorstDecline(args.stress) = "-35%"
    /\ "worst_case_scenario" \in DOMAIN args.stress
    /\ output.overall_risk_level = "MODERATE"

NoDuplicates(seq) == \A i, j \in 1..Len(seq) : i # j => seq[i] # seq[j]

\* C16: risk_flags holds no flag twice and at most 5 flags: at most the first
\* 2 stress-test flags, then the diversification flag when the correlation
\* score (5/10 where a correlation result names none) starts with 3, 4 or 5,
\* then the VaR flag when the daily 95% VaR percent is above 3.
C16_FlagsDistinctAndOrdered ==
    args.pipeline = "identify_flags" =>
        LET flags == output.risk_flags
            fromStress == Take(Get(args.stress, "risk_flags", <<>>), 2)
            score == Get(Get(args.corr, "diversification_assessment", EmptyMap), "score", "5/10")
            diversification == IF args.corr # EmptyMap /\ StartsWith345(score)
                               THEN <<"Diversification quality needs improvement">> ELSE <<>>
            percent == Get(Get(Get(args.var, "var_metrics", EmptyMap), "daily_var_95", EmptyMap),
                           "percent", "0%")
            fromVar == IF percent = "4%" THEN <<"High daily VaR of 4%">> ELSE <<>>
        IN  /\ NoDuplicates(flags)
            /\ Len(flags) <= 5
            /\ flags = fromStress \o diversification \o fromVar

----------------------------------------------------------------------------
(* The thesis of an analysis *)

Recommendations == {"strong_buy", "buy", "hold", "sell", "strong_sell"}

\* C17: an analysis in which at most 3 of the 4 research branches failed
\* returns a thesis whose recommendation is one of strong_buy, buy, hold, sell,
\* strong_sell and whose conviction lies between 0 and 1 (0 to 100 hundredths).
C17_ThesisWellFormed ==
    (/\ pc = "done" /\ args.pipeline = "analysis"
     /\ Cardinality({i \in 1..Len(results) : isException(results[i])}) <= 3) =>
        /\ "recommendation" \in DOMAIN output.thesis
        /\ output.thesis.recommendation \in Recommendations
        /\ "conviction_pct" \in DOMAIN output.thesis
        /\ output.thesis.conviction_pct \in 0..100

----------------------------------------------------------------------------
(* The conversation routes: the stages of a fund *)

\* C18: a chat turn classified create_fund, in any letter case, registers
\* exactly one new fund, in status building, links the conversation to it,
\* sets the payload to phase scouting with the fund_params and the id of the
\* new fund, and proposes scouting, analyzing, building_portfolio in this order.
C18_CreateFundRegistersOne ==
    [][\A r \in ReqIds, intent \in IntentAnswers :
            (/\ LowerIntent(Get(intent, "intent", "unclear")) = "create_fund"
             /\ chat_respond(r, intent)) =>
                \E f \in FundIds :
                    /\ funds[f] = NoRow /\ funds'[f] # NoRow
                    /\ funds'[f].status = "building"
                    /\ \A g \in FundIds \ {f} : funds'[g] = funds[g]
                    /\ convs'[reqs[r].conv].fund_id = f
                    /\ convs'[reqs[r].conv].state =
                            [phase |-> "scouting",
                             fund_params |-> Get(intent, "fund_params", EmptyMap),
                             fund_id |-> f]
                    /\ response'.actions = <<"scouting", "analyzing", "building_portfolio">>]_vars

\* the payload stored with the conversation of request r after the step
StoredPayload(r) == convs'[reqs[r].conv].state

\* C19: after a scouting action that returned "complete", the stored payload
\* holds as discovered tickers the first min(10, n) of the n hot stocks of the
\* discovery, in their order, and its phase is discovered.
C19_ScoutingStoresTickers ==
    [][\A r \in ReqIds, hot_stocks \in HotAnswers, detected \in BOOLEAN :
            execute_scouting(r, hot_stocks, detected) =>
                /\ "discovered_stocks" \in DOMAIN StoredPayload(r)
                /\ StoredPayload(r).discovered_stocks = Take(hot_stocks, 10)
                /\ StoredPayload(r).phase = "discovered"]_vars

\* C20: the analyzing action analyses the first min(5, n) discovered tickers
\* in list order, skips a ticker whose analysis raises, stores one thesis for
\* each ticker analysed, in that order, and leaves the stored phase analyzed,
\* also when every analysis failed.
C20_AnalyzingStoresTheses ==
    [][\A r \in ReqIds, outcomes \in SeqsUpTo(StockOutcomes, MaxStocks), detected \in BOOLEAN :
            execute_analyzing(r, outcomes, detected) =>
                LET tickers == Take(Get(reqs[r].state, "discovered_stocks", <<>>), 5)
                    analysed == SelectSeq([k \in 1..Len(tickers) |->
                                              [ticker |-> tickers[k], st |-> outcomes[k].st]],
                                          LAMBDA t : t.st = "returned")
                IN  /\ "theses" \in DOMAIN StoredPayload(r)
                    /\ Len(StoredPayload(r).theses) = Len(analysed)
                    /\ \A k \in 1..Len(analysed) :
                            StoredPayload(r).theses[k].ticker = analysed[k].ticker
                    /\ StoredPayload(r).phase = "analyzed"]_vars

\* C21: after a building_portfolio action that returned "complete" on a
\* conversation whose payload names a fund, one position in status proposed
\* has been added for each returned allocation that has a ticker and none
\* for the others, that fund is active, and the stored phase is complete.
C21_PortfolioMaterialised ==
    [][\A r \in ReqIds, portfolio \in PortfolioAnswers, detected \in BOOLEAN :
            (/\ execute_building_portfolio(r, portfolio, detected)
             /\ Get(reqs[r].state, "fund_id", NoFundId) # NoFundId) =>
                LET fund_id == reqs[r].state.fund_id
                    allocations == Get(portfolio, "positions",
                                       Get(portfolio, "allocations", <<>>))
                    withTicker == SelectSeq(allocations, LAMBDA a : "ticker" \in DOMAIN a)
                IN  /\ Len(positions') = Len(positions) + Len(withTicker)
                    /\ \A k \in 1..Len(withTicker) :
                            positions'[Len(positions) + k] =
                                [fund_id |-> fund_id, ticker |-> withTicker[k].ticker,
                                 status |-> "proposed"]
                    /\ funds'[fund_id] # NoRow => funds'[fund_id].status = "active"
                    /\ StoredPayload(r).phase = "complete"]_vars

QueryIntents == {"query_performance", "query_risk", "command_trade", "unclear"}

\* C22: a chat turn classified query_performance, query_risk, command_trade or
\* unclear changes no fund and no position and, of its conversation, nothing
\* but the messages: the payload and the fund reference stay as stored (as
\* created, for a conversation the turn created). The first three intents
\* propose one action each, unclear none.
C22_QueryTurnsOnlyAddMessages ==
    [][\A r \in ReqIds, intent \in IntentAnswers :
            (/\ LowerIntent(Get(intent, "intent", "unclear")) \in QueryIntents
             /\ chat_respond(r, intent)) =>
                LET c == reqs[r].conv
                    tag == LowerIntent(Get(intent, "intent", "unclear"))
                IN  /\ funds' = funds /\ positions' = positions
                    /\ \A d \in ConvIds \ {c} : convs'[d] = convs[d]
                    /\ IF reqs[r].created
                       THEN /\ convs'[c].state = None
                            /\ convs'[c].fund_id = reqs[r].conversation.fund_id
                       ELSE /\ convs'[c].state = convs[c].state
                            /\ convs'[c].fund_id = convs[c].fund_id
                            /\ convs'[c].phase = convs[c].phase
                    /\ Len(convs'[c].messages) = Len(reqs[r].conversation.messages) + 1
                    /\ SubSeq(convs'[c].messages, 1, Len(reqs[r].conversation.messages))
                            = reqs[r].conversation.messages
                    /\ response'.status = 200
                    /\ IF tag = "unclear" THEN response'.actions = None
                       ELSE Len(response'.actions) = 1]_vars

C22_Witness ==
    /\ response.kind = "chat" /\ response.status = 200
    /\ response.intent = "command_trade"
    /\ response.actions = <<"confirm_trade">>
    /\ convs[1] # NoRow
    /\ convs[1].state # None
    /\ convs[1].fund_id # NoFundId
    /\ Len(convs[1].messages) = 4

----------------------------------------------------------------------------
(* api/routes/analyze.py: analyze_batch. tasks holds the call of analyze_stock
   for each ticker of the request, results the list the handler appends to *)

\* tickers in one request
MaxBatch == 3

BatchTickers == {"nvda", "AMD"}

\* ticker.upper() on the tickers of the model
Upper(ticker) == IF ticker = "nvda" THEN "NVDA" ELSE ticker

Pending == [st |-> "pending"]
Finished == [st |-> "finished"]

\* what analyze_stock does for one ticker: a result with a full thesis, one
\* whose thesis has score_breakdown null, one without thesis, or an exception
BatchOutcomes ==
    {Returned([thesis |-> [recommendation |-> "buy", conviction |-> 70,
                           score_breakdown |-> [overall |-> 8]]]),
     Returned([thesis |-> [recommendation |-> "hold", score_breakdown |-> None]]),
     Returned([ticker |-> "NVDA"]),
     Raised("timeout")}

\* the entry the loop body appends for a ticker: the success entry, or the
\* error entry where analyze_stock or the reading of its result raises
BatchEntry(ticker, outcome) ==
    IF outcome.st = "raised"
    THEN [ticker |-> Upper(ticker), status |-> "error", error |-> outcome.msg]
    ELSE LET thesis_data == Get(outcome.val, "thesis", EmptyMap)
             score_breakdown == Get(thesis_data, "score_breakdown", EmptyMap)
         IN  IF score_breakdown = None
             THEN [ticker |-> Upper(ticker), status |-> "error", error |-> "AttributeError"]
             ELSE [ticker |-> Upper(ticker), status |-> "success",
                   recommendation |-> Get(thesis_data, "recommendation", None),
                   conviction |-> Get(thesis_data, "conviction", None),
                   score |-> Get(score_breakdown, "overall", None)]

\* a loop that would start the next analysis without awaiting the one running
LoopNeverAwaits(started) == TRUE

\* the loop is suspended in its await while an analysis is running
LoopAwaits(started) == \A k \in 1..Len(started) : started[k] # Running

\* analyze_batch up to its loop
analyze_batch(tickers) ==
    /\ pc = "idle"
    /\ pc' = "batch"
    /\ args' = [pipeline |-> "analyze_batch", tickers |-> tickers]
    /\ tasks' = [i \in 1..Len(tickers) |-> Pending]
    /\ results' = <<>>
    /\ UNCHANGED <<calls, all_stocks, unique_stocks, context, output, chatVars>>

\* the loop reaches ticker i and calls analyze_stock
batch_call(i) ==
    /\ pc = "batch"
    /\ i \in 1..Len(tasks) /\ tasks[i] = Pending
    /\ \A k \in 1..(i - 1) : tasks[k] # Pending
    /\ LoopAwaits(tasks)
    /\ tasks' = [tasks EXCEPT ![i] = Running]
    /\ UNCHANGED <<pc, args, results, calls, all_stocks, unique_stocks, context, output, chatVars>>

\* analyze_stock returns or raises for ticker i; the loop body appends the entry
batch_append(i, outcome) ==
    /\ pc = "batch"
    /\ i \in 1..Len(tasks) /\ tasks[i] = Running
    /\ tasks' = [tasks EXCEPT ![i] = Finished]
    /\ results' = Append(results, BatchEntry(args.tickers[i], outcome))
    /\ UNCHANGED <<pc, args, calls, all_stocks, unique_stocks, context, output, chatVars>>

\* the loop is over: the counts and the list are returned
batch_return ==
    /\ pc = "batch"
    /\ \A k \in 1..Len(tasks) : tasks[k] = Finished
    /\ pc' = "done"
    /\ output' = [analyzed |-> Len(SelectSeq(results, LAMBDA e : e.status = "success")),
                  failed |-> Len(SelectSeq(results, LAMBDA e : e.status = "error")),
                  results |-> results]
    /\ UNCHANGED <<args, tasks, results, calls, all_stocks, unique_stocks, context, chatVars>>

BatchNext ==
    \/ \E tickers \in SeqsUpTo(BatchTickers, MaxBatch) : analyze_batch(tickers)
    \/ \E i \in 1..MaxBatch : batch_call(i)
    \/ \E i \in 1..MaxBatch, outcome \in BatchOutcomes : batch_append(i, outcome)
    \/ batch_return

SpecBatch == Init /\ [][BatchNext]_vars

\* C23: analyze_batch has at most one analysis in flight, and the analysis of
\* a ticker is called only when those of all tickers before it are over; it
\* returns only when every ticker was processed, whatever failed before; then
\* analyzed + failed is the number of tickers and the results hold one entry
\* per ticker in input order.
C23_BatchSequential ==
    args.pipeline = "analyze_batch" =>
        /\ Cardinality({i \in 1..Len(tasks) : tasks[i] = Running}) <= 1
        /\ \A i, j \in 1..Len(tasks) : (i < j /\ tasks[j] # Pending) => tasks[i] = Finished
        /\ pc = "done" =>
            /\ \A i \in 1..Len(tasks) : tasks[i] = Finished
            /\ output.analyzed + output.failed = Len(args.tickers)
            /\ Len(output.results) = Len(args.tickers)
            /\ \A i \in 1..Len(args.tickers) :
                    output.results[i].ticker = Upper(args.tickers[i])

C23_Witness ==
    /\ args.pipeline = "analyze_batch" /\ pc = "done"
    /\ args.tickers = <<"nvda", "AMD", "nvda">>
    /\ output.results[1].status = "error"
    /\ output.results[2].status = "success"
    /\ output.results[3].status = "error"
    /\ output.failed = 2 /\ output.analyzed = 1

----------------------------------------------------------------------------
(* ScoutPipeline.discover: the task list and the counts of its result *)

\* the mandates of the model that hold "growth" or "disruption" in some letter case
CallsForDisruption(mandate) == mandate \in {"US Growth", "DISRUPTION"}

\* C24: discover launches emerging leaders and smart money always, disruption
\* if and only if run_all_scouts is set or the mandate holds "growth" or
\* "disruption" in any letter case, and one thematic task for each entry of
\* themes; stats.scouts_run is the number of launched tasks, failed ones counted.
C24_ScoutTaskList ==
    (args.pipeline = "scout" /\ pc # "idle") =>
        LET disruption == args.run_all_scouts \/ CallsForDisruption(args.mandate)
            named(n) == {i \in 1..Len(tasks) : tasks[i].name = n}
        IN  /\ Cardinality(named("Emerging Leaders")) = 1
            /\ Cardinality(named("Smart Money")) = 1
            /\ Cardinality(named("Disruption")) = (IF disruption THEN 1 ELSE 0)
            /\ Cardinality(named("Thematic")) = Len(args.themes)
            /\ \A k \in 1..Len(args.themes) :
                    \E i \in named("Thematic") : tasks[i].theme = args.themes[k]
            /\ Len(tasks) = 2 + (IF disruption THEN 1 ELSE 0) + Len(args.themes)
            /\ Len(results) = Len(tasks)
            /\ pc = "done" =>
                /\ output.stats.scouts_run = Len(tasks)
                /\ output.stats.scouts_run = Cardinality(Succeeded) + Cardinality(Failed)

C24_Witness ==
    /\ args.pipeline = "scout" /\ pc = "done"
    /\ args.mandate = "DISRUPTION" /\ ~args.run_all_scouts
    /\ Len(args.themes) = 1
    /\ Cardinality(Failed) = 2
    /\ output.stats.scouts_run = 4

\* the stocks a scout that succeeded returned, with or without ticker
ScoutCount(i) == Len(results[i].val.stocks)

\* C25: stats.total_discovered is the number of stocks the scouts that
\* succeeded returned, counted before deduplication, and stats.unique_stocks
\* the number of distinct tickers among them, so unique_stocks is at most
\* total_discovered.
C25_DiscoveryCounts ==
    (args.pipeline = "scout" /\ pc = "done") =>
        /\ output.stats.total_discovered =
                SumLen([i \in 1..Len(results) |->
                            IF i \in Succeeded THEN ScoutCount(i) ELSE 0], Len(results))
        /\ output.stats.unique_stocks =
                Cardinality(UNION {ScoutTickers(i) : i \in Succeeded})
        /\ output.stats.unique_stocks <= output.stats.total_discovered

\* two scouts returned the same ticker and a third failed: 2 discovered, 1 unique
C25_Witness ==
    /\ args.pipeline = "scout" /\ pc = "done"
    /\ Failed # {}
    /\ \E i, j \in Succeeded : i # j /\ ScoutTickers(i) = {"NVDA"} /\ ScoutTickers(j) = {"NVDA"}
    /\ output.stats.total_discovered = 2
    /\ output.stats.unique_stocks = 1

\* C26: whatever add_position requests and building_portfolio actions ran, and
\* however they interleaved, a fund holds at most one position per ticker.
C26_OnePositionPerTicker ==
    \A k1, k2 \in 1..Len(positions) :
        (positions[k1].fund_id = positions[k2].fund_id
            /\ positions[k1].ticker = positions[k2].ticker) => k1 = k2

----------------------------------------------------------------------------
(* The stages of a conversation against its phase *)

\* the funds a conversation refers to: by its column fund_id and by the
\* fund_id of its stage payload
ReferredFunds(row) == {row.fund_id, Get(row.state, "fund_id", NoFundId)} \ {NoFundId}

\* C27: a stored conversation in phase analyzed has had a scouting action
\* complete before, and one in phase complete has had an analyzing action
\* complete before and refers to an existing fund whose status is active. A
\* conversation is created by a chat turn and each action is a request of its
\* own, so in either phase at least three requests have been accepted: the
\* turn, the earlier action, and the action that stored the phase.
C27_PhaseImpliesEarlierStages ==
    \A c \in ConvIds :
        convs[c] # NoRow =>
            /\ Phase(convs[c]) \in {"analyzed", "complete"} => served >= 3
            /\ Phase(convs[c]) = "complete" =>
                    \E f \in ReferredFunds(convs[c]) :
                        funds[f] # NoRow /\ funds[f].status = "active"

----------------------------------------------------------------------------
(* The diversification flag of a risk report *)

DiversificationFlag == "Diversification quality needs improvement"

\* the correlation branch of the finished risk analysis returned a result that
\* names a diversification score starting with 3, 4 or 5
CorrelationReportsWeakScore ==
    /\ args.run_full
    /\ Len(results) = 4
    /\ results[4].st = "returned"
    /\ "diversification_assessment" \in DOMAIN results[4].val
    /\ "score" \in DOMAIN results[4].val.diversification_assessment
    /\ StartsWith345(results[4].val.diversification_assessment.score)

\* C28: the risk report carries the flag "Diversification quality needs
\* improvement" only when the correlation branch returned a result and that
\* result itself names a score starting with 3, 4 or 5; with a failed
\* correlation branch, a result without a score, or run_full off, the flag is
\* absent.
C28_DiversificationFlagFromScore ==
    (pc = "done" /\ args.pipeline = "risk") =>
        (DiversificationFlag \in Range(output.risk_flags) => CorrelationReportsWeakScore)

\* C29: an entry of the merged list is flagged _multi_scout only if two or
\* more different scouts that succeeded returned its ticker, so a scout that
\* lists one ticker twice does not flag it by itself; and no entry of the
\* merged list has a missing or empty ticker.
C29_MultiScoutNeedsTwoScouts ==
    Aggregated =>
        \A k \in 1..Len(unique_stocks) :
            /\ unique_stocks[k].ticker # NoTicker
            /\ unique_stocks[k]._multi_scout =>
                    Cardinality(ScoutsListing(unique_stocks[k].ticker)) >= 2

----------------------------------------------------------------------------
(* The actions a chat turn proposes, against execute_action *)

\* the history of conversation c holds the answer of a turn that proposed action
ProposedOn(c, action) ==
    \E intent \in IntentAnswers :
        LET intent_type == LowerIntent(Get(intent, "intent", "unclear"))
            actions == ProposedActions(intent_type)
        IN  /\ intent_type \in {"create_fund", "query_performance", "query_risk", "command_trade"}
            /\ action \in Range(actions)
            /\ \E k \in 1..Len(convs[c].messages) :
                    convs[c].messages[k] =
                        [role |-> "assistant", content |-> ResponseText(intent, intent_type)]

\* C30: execute_action called on a stored conversation with an action that a
\* turn of this conversation proposed is not answered with status
\* unknown_action.
C30_ProposedActionsAreKnown ==
    [][\A r \in ReqIds, c \in ConvIds, action \in KnownActions \cup OtherActions :
            (execute_begin(r, c, action) /\ convs[c] # NoRow /\ ProposedOn(c, action)) =>
                (reqs'[r].kind = "exec"
                    \/ response'.result.status # "unknown_action")]_vars

====
